---- MODULE Spec2Model ----
(***************************************************************************)
(* cudatel-ws-client: the Connection (websocket channel lifecycle, message *)
(* routing, record formatter) and the Client (live cache, reconnect).      *)
(*                                                                         *)
(* JavaScript is single threaded and EventEmitter.emit runs its listeners  *)
(* synchronously, so one action of this model is one callback of the       *)
(* event loop (a socket event, a timer firing, an ajax callback) together  *)
(* with every handler it reaches through emit.                             *)
(*                                                                         *)
(* Strings whose characters the code inspects (column labels, values that  *)
(* are parsed or printed) are tuples of one-character strings.             *)
(***************************************************************************)
EXTENDS Integers, Sequences, FiniteSets, TLC

VARIABLES
    conns,      \* the Connection instances constructed so far, oldest first
    live,       \* Client.live : channel -> { data, ready }
    timers,     \* the active setInterval timers of the process
    nextTimer,  \* the handle the next setInterval returns
    crashed,    \* an exception left a callback uncaught: the process is gone
    trace,      \* what the last callback emitted, sent and applied, in order
    received,   \* the number of inbound batches received so far
    fired       \* the number of timer firings so far

vars == <<conns, live, timers, nextTimer, crashed, trace, received, fired>>

----------------------------------------------------------------------------
(* Bounds of the model. *)

MaxConn == 2        \* Connection instances constructed
MaxLogins == 1      \* login messages handled by one instance
MaxFired == 1       \* firings of interval timers
MaxTimers == 4      \* setInterval calls
MaxBatches == 3     \* inbound batches the process receives
MaxRows == 3        \* rows of a bootstrap snapshot, and the largest row_id sent
MaxCols == 3        \* labels of a schema given to format; a row has one value more

----------------------------------------------------------------------------
(* Configuration: config.sets, loaded by Connection.bootstrap. *)

SetsJoin == <<"presence">>
SetsBoot == <<"b1", "b2">>

Range(s) == {s[i] : i \in DOMAIN s}

NoChannel == "-"            \* channel.find returned false
EmptyMap == [x \in {} |-> FALSE]
Put(f, k, v) == [x \in DOMAIN f \cup {k} |-> IF x = k THEN v ELSE f[x]]

(* String.prototype.toLowerCase on the names that occur on the wire. *)
toLowerCase(s) ==
    CASE s = "B1" -> "b1"
      [] s = "LOGIN" -> "login"
      [] s = "JOIN_CHANNEL" -> "join_channel"
      [] s = "BROADCAST" -> "broadcast"
      [] s = "ERR" -> "err"
      [] OTHER -> s

----------------------------------------------------------------------------
(* Values: decimal digits, parseInt, Number.prototype.toString. *)

Digits == <<"0", "1", "2", "3", "4", "5", "6", "7", "8", "9">>
IsDigit(ch) == \E i \in DOMAIN Digits : Digits[i] = ch
DigitVal(ch) == (CHOOSE i \in DOMAIN Digits : Digits[i] = ch) - 1

NaN == -1                   \* no value of the model is negative
Undefined == <<>>           \* undefined: a missing property, an array hole

RECURSIVE DigitPrefix(_)
DigitPrefix(s) ==
    IF s = <<>> \/ ~IsDigit(Head(s)) THEN <<>> ELSE <<Head(s)>> \o DigitPrefix(Tail(s))

RECURSIVE DigitsValue(_)
DigitsValue(s) ==
    IF s = <<>> THEN 0 ELSE 10 * DigitsValue(SubSeq(s, 1, Len(s) - 1)) + DigitVal(s[Len(s)])

(* parseInt( v ): the leading digits, NaN when there are none or v is undefined. *)
parseInt(v) == IF DigitPrefix(v) = <<>> THEN NaN ELSE DigitsValue(DigitPrefix(v))

(* ToNumber( v ) as Array.prototype.splice applies it: every character a digit. *)
ToNumber(v) == IF v # <<>> /\ DigitPrefix(v) = v THEN DigitsValue(v) ELSE NaN

RECURSIVE toString(_)
toString(n) ==
    IF n = NaN THEN <<"N", "a", "N">>
    ELSE IF n < 10 THEN <<Digits[n + 1]>>
    ELSE toString(n \div 10) \o <<Digits[(n % 10) + 1]>>

----------------------------------------------------------------------------
(* Column labels and values of the rows used as inputs. *)

L_row_id == <<"r", "o", "w", "_", "i", "d">>
L_status == <<"s", "t", "a", "t", "u", "s">>
L_a_id == <<"a", "_", "i", "d">>
L_b_id == <<"b", "_", "i", "d">>
L_id == <<"i", "d">>
L_FAILED == <<"F", "A", "I", "L", "E", "D">>

V_up == <<"u", "p">>
V_dn == <<"d", "n">>

(* String.prototype.substring( from, to ) *)
substring(s, from, to) ==
    LET t == IF to > Len(s) THEN Len(s) ELSE to
        f == IF from > Len(s) THEN Len(s) ELSE from
    IN SubSeq(s, f + 1, t)

----------------------------------------------------------------------------
(* Inbound messages.  raw is the message's label; channel is data.channel  *)
(* and pipe is data.pipe.properties.name (NoChannel when absent); action   *)
(* is data.data.action ("" when absent); data.data.data is cols for an     *)
(* init, rows for a bootstrap_data and row for add, modify and del.        *)

Msg(raw, channel, pipe, action, cols, rows, row) ==
    [raw |-> raw, channel |-> channel, pipe |-> pipe, action |-> action,
     cols |-> cols, rows |-> rows, row |-> row]

(* message.data.data.data *)
Payload(m) ==
    CASE m.action = "init" -> m.cols
      [] m.action = "bootstrap_data" -> m.rows
      [] OTHER -> m.row

----------------------------------------------------------------------------
(* The state a callback works on: the variables as one record. *)

World == [conns |-> conns, live |-> live, timers |-> timers,
          nextTimer |-> nextTimer, crashed |-> FALSE, trace |-> <<>>,
          received |-> received, fired |-> fired]

Emit(w, ev) == [w EXCEPT !.trace = Append(@, ev)]

(* An event of instance c about a channel, as the listeners receive it. *)
E(tag, c, channel) == [tag |-> tag, c |-> c, channel |-> channel]

(* A TypeError (a property read of undefined) that nothing catches. *)
Throw(w, what) ==
    [w EXCEPT !.crashed = TRUE, !.trace = Append(@, [tag |-> "throw", what |-> what])]

(* new Connection( env ): the constructor and Connection.bootstrap.  nsent, *)
(* logins, built and bonded record history and are read by no handler.      *)
NewConnection ==
    [poll |-> 0, data |-> EmptyMap, bond |-> EmptyMap, no_calls |-> EmptyMap,
     tunnel |-> "none", opening |-> FALSE, shutting |-> FALSE,
     logins |-> 0, nsent |-> 0, built |-> {}, bonded |-> {}]

----------------------------------------------------------------------------
(* Connection.channel *)

(* channel.type: the set that lists the channel; an unknown channel emits   *)
(* "error" and yields the result of emit, which equals no type name.        *)
channel_type(channel) ==
    IF channel \in Range(SetsJoin) THEN "join"
    ELSE IF channel \in Range(SetsBoot) THEN "boot"
    ELSE "true"

channel_type_emit(w, c, channel) ==
    IF channel_type(channel) = "true" THEN Emit(w, E("error", c, channel)) ELSE w

(* channel.next with a step of two: a number is skipped at every send *)
channel_next_skip(poll) == poll + 2

(* channel.next: poll++ hands out poll and leaves poll + 1 *)
channel_next(poll) == poll + 1

(* channel.make; boots counts the boot messages sent for the binding and is *)
(* read by no handler                                                       *)
channel_make(w, c, channel) ==
    LET w1 == channel_type_emit(w, c, channel)
        new_channel == [beat |-> 0, test |-> 0, tick |-> 0, done |-> FALSE,
                        sent |-> channel_type(channel) # "boot", boots |-> 0]
    IN [w1 EXCEPT !.conns[c].data = Put(@, channel, new_channel)]

(* An "error" event that reports the transport: the callback of tunnel.send *)
(* was given an error, or the socket emitted "error".                       *)
TransportError(c, from) ==
    [tag |-> "error", c |-> c, channel |-> NoChannel, transport |-> from]

(* Connection.write and Connection.send: chl is channel.next(); a heartbeat *)
(* takes its hb_id from channel.tick.  The socket refuses a message while   *)
(* it is not open and hands the error to the callback of send, which emits  *)
(* "error".                                                                 *)
Connection_send(w, c, format, context) ==
    IF w.crashed THEN w
    ELSE IF format = "beat" /\ context \notin DOMAIN w.conns[c].data
    THEN Throw([w EXCEPT !.conns[c].poll = channel_next(@)], "tick")
    ELSE LET chl == w.conns[c].poll
             w1 == [w EXCEPT !.conns[c].poll = channel_next(@),
                             !.conns[c].nsent = @ + 1]
             w2 == IF format = "beat"
                   THEN [w1 EXCEPT !.conns[c].data[context].tick = @ + 1]
                   ELSE w1
             w3 == Emit(w2, [tag |-> "send", c |-> c, format |-> format, chl |-> chl,
                             context |-> context, tunnel |-> w.conns[c].tunnel])
         IN IF w.conns[c].tunnel = "open" THEN w3
            ELSE Emit(w3, TransportError(c, "send"))

RECURSIVE make_each(_, _, _)
make_each(w, c, list) ==
    IF list = <<>> THEN w
    ELSE make_each(channel_make(w, c, Head(list)), c, Tail(list))

RECURSIVE joined_each(_, _, _)
joined_each(w, c, list) ==
    IF list = <<>> THEN w
    ELSE joined_each(IF Head(list) \in DOMAIN w.conns[c].data
                     THEN Emit(w, E("joined", c, Head(list))) ELSE w,
                     c, Tail(list))

(* channel.join *)
channel_join(w, c) ==
    LET w1 == make_each(w, c, SetsJoin \o SetsBoot)
        w2 == Connection_send(w1, c, "join", "join")
        w3 == Connection_send(w2, c, "join", "boot")
    IN joined_each(w3, c, SetsJoin \o SetsBoot)

(* on( "booting" ) without the assignment of sent = true *)
on_booting_unmarked(w, c, channel) ==
    LET w1 == IF ~w.conns[c].data[channel].sent
              THEN [Connection_send(w, c, "boot", channel)
                        EXCEPT !.conns[c].data[channel].boots = @ + 1]
              ELSE w
        booted == \A n \in Range(SetsBoot) :
                     n \in DOMAIN w1.conns[c].data /\ w1.conns[c].data[n].sent
    IN IF booted THEN Emit(w1, E("booted", c, channel)) ELSE w1

(* on( "booting" ) *)
on_booting(w, c, channel) ==
    LET w1 == IF ~w.conns[c].data[channel].sent
              THEN [Connection_send(w, c, "boot", channel)
                        EXCEPT !.conns[c].data[channel].sent = TRUE,
                               !.conns[c].data[channel].boots = @ + 1]
              ELSE w
        booted == \A n \in Range(SetsBoot) :
                     n \in DOMAIN w1.conns[c].data /\ w1.conns[c].data[n].sent
    IN IF booted THEN Emit(w1, E("booted", c, channel)) ELSE w1

(* channel.lock without the return in front of emit( "booting" ): the flag *)
(* is set and "loaded" emitted for a channel whose boot was only just sent *)
channel_lock_through(w, c, channel) ==
    IF w.crashed THEN w
    ELSE LET w1 == channel_type_emit(w, c, channel)
             known == channel \in DOMAIN w.conns[c].data
             w2 == IF channel_type(channel) = "boot" /\ known
                      /\ ~w.conns[c].data[channel].sent
                   THEN on_booting(Emit(w1, E("booting", c, channel)), c, channel)
                   ELSE w1
         IN IF ~known THEN Throw(w2, "lock")
            ELSE Emit([w2 EXCEPT !.conns[c].data[channel].done = TRUE],
                      E("loaded", c, channel))

(* channel.lock *)
channel_lock(w, c, channel) ==
    IF w.crashed THEN w
    ELSE LET w1 == channel_type_emit(w, c, channel)
             known == channel \in DOMAIN w.conns[c].data
         IN IF channel_type(channel) = "boot" /\ known /\ ~w.conns[c].data[channel].sent
            THEN on_booting(Emit(w1, E("booting", c, channel)), c, channel)
            ELSE IF ~known THEN Throw(w1, "lock")
            ELSE Emit([w1 EXCEPT !.conns[c].data[channel].done = TRUE],
                      E("loaded", c, channel))

(* channel.flow: two setInterval calls, their handles kept in the binding *)
channel_flow(w, c, channel) ==
    IF w.crashed THEN w
    ELSE IF channel \notin DOMAIN w.conns[c].data THEN Throw(w, "flow")
    ELSE LET beat == w.nextTimer
             test == w.nextTimer + 1
         IN [w EXCEPT !.timers = @ \cup
                          {[id |-> beat, c |-> c, channel |-> channel, kind |-> "beat"],
                           [id |-> test, c |-> c, channel |-> channel, kind |-> "test"]},
                      !.nextTimer = @ + 2,
                      !.conns[c].data[channel].beat = beat,
                      !.conns[c].data[channel].test = test]

clearInterval(ts, id) == {t \in ts : t.id # id}

(* channel.dump; the "dumped" entry records the handles the binding held *)
channel_dump(w, c, channel) ==
    IF channel \notin DOMAIN w.conns[c].data
    THEN Emit(w, E("error", c, channel))
    ELSE LET binding == w.conns[c].data[channel]
             w1 == [w EXCEPT !.timers = clearInterval(@, binding.beat)]
         IN Emit(channel_make(w1, c, channel),
                 [tag |-> "dumped", c |-> c, channel |-> channel,
                  beat |-> binding.beat, test |-> binding.test])

RECURSIVE dump_each(_, _, _)
dump_each(w, c, list) ==
    IF list = <<>> THEN w
    ELSE dump_each(channel_dump(w, c, Head(list)), c, Tail(list))

(* channel.find *)
channel_find(m) ==
    IF m.channel # NoChannel THEN toLowerCase(m.channel)
    ELSE IF m.pipe # NoChannel THEN toLowerCase(m.pipe)
    ELSE NoChannel

----------------------------------------------------------------------------
(* Connection.format *)

(* $this.bond[ channel ]: the stored column names, undefined when none *)
bond_of(bond, channel) == IF channel \in DOMAIN bond THEN bond[channel] ELSE Undefined

NotFormattable == [ok |-> FALSE, data |-> Undefined, action |-> "undefined",
                   aleg |-> EmptyMap, bleg |-> EmptyMap, call |-> EmptyMap]

format_label(cols, position) ==
    IF position <= Len(cols) /\ cols[position] # <<>> THEN cols[position] ELSE L_FAILED

(* The loop over the positions of data.data, from the first to position n. *)
RECURSIVE format_fields(_, _, _)
format_fields(cols, values, n) ==
    IF n = 0 THEN [data |-> EmptyMap, aleg |-> EmptyMap, bleg |-> EmptyMap, call |-> EmptyMap]
    ELSE LET r == format_fields(cols, values, n - 1)
             value == values[n]
             label == format_label(cols, n)
             leg == substring(label, 0, 2)
             lab == substring(label, 0, 1)
             col == substring(label, 2, Len(label))
         IN [data |-> Put(r.data, label, value),
             aleg |-> IF leg = <<"a", "_">> THEN Put(r.aleg, col, value) ELSE r.aleg,
             bleg |-> IF leg = <<"b", "_">> THEN Put(r.bleg, col, value) ELSE r.bleg,
             call |-> IF leg = <<"a", "_">> \/ leg = <<"b", "_">> THEN r.call
                      ELSE Put(r.call, label, value)]

format_id(data) ==
    LET row_id == IF L_row_id \in DOMAIN data THEN data[L_row_id] ELSE Undefined
        n == parseInt(row_id)
    IN toString(IF n = NaN THEN NaN ELSE n + 1)

Connection_format(bond, action, values, channel) ==
    IF channel \notin DOMAIN bond \/ Len(bond[channel]) = 0 THEN NotFormattable
    ELSE LET r == format_fields(bond[channel], values, Len(values))
         IN [ok |-> TRUE,
             data |-> Put(r.data, L_id, format_id(r.data)),
             action |-> IF action # "" THEN action ELSE "bootstrap",
             aleg |-> r.aleg, bleg |-> r.bleg, call |-> r.call]

----------------------------------------------------------------------------
(* Client *)

(* live.data[ key ] = value on a JavaScript array: an index past the end    *)
(* leaves holes; a key that is no array index sets a property and no element *)
IsArrayIndex(key) == parseInt(key) # NaN /\ toString(parseInt(key)) = key

(* live.data.push( value ) in the place of the assignment to the index *)
array_set_push(arr, key, value) == Append(arr, value)

array_set(arr, key, value) ==
    IF ~IsArrayIndex(key) THEN arr
    ELSE LET i == parseInt(key) + 1
         IN [j \in 1 .. (IF i > Len(arr) THEN i ELSE Len(arr)) |->
                IF j = i THEN value ELSE IF j <= Len(arr) THEN arr[j] ELSE Undefined]

(* live.data.splice( key ) without the count: everything from key goes *)
array_splice_rest(arr, key) ==
    LET start == IF ToNumber(key) = NaN THEN 0 ELSE ToNumber(key)
    IN IF start >= Len(arr) THEN arr ELSE SubSeq(arr, 1, start)

(* live.data.splice( key, 1 ): ToIntegerOrInfinity( key ) with NaN as 0 *)
array_splice(arr, key) ==
    LET start == IF ToNumber(key) = NaN THEN 0 ELSE ToNumber(key)
    IN IF start >= Len(arr) THEN arr
       ELSE SubSeq(arr, 1, start) \o SubSeq(arr, start + 2, Len(arr))

(* Connection.start: new WebSocket and its listeners *)
Connection_start(w, c) == [w EXCEPT !.conns[c].tunnel = "connecting"]

(* Client.wipe: the watchers are bound to the new connection (every emit of *)
(* an instance reaches the client from then on); the watched caches are     *)
(* reset.                                                                   *)
Client_wipe(w) ==
    [w EXCEPT !.live = [ch \in DOMAIN w.live \cup Range(SetsBoot) |->
                           IF ch \in Range(SetsBoot)
                           THEN [data |-> <<>>, ready |-> FALSE]
                           ELSE w.live[ch]]]

(* Client.open *)
Client_open(w) ==
    LET w1 == [w EXCEPT !.conns = Append(@, NewConnection)]
    IN Connection_start(Client_wipe(w1), Len(w1.conns))

(* Client.shut *)
Client_shut(w) == Client_open(Emit(w, E("shut", Len(w.conns), NoChannel)))

RECURSIVE fill_push(_, _)
fill_push(arr, bootstrap) ==
    IF bootstrap = <<>> THEN arr
    ELSE fill_push(Append(arr, Head(bootstrap).data), Tail(bootstrap))

(* Client.fill *)
Client_fill(w, channel, bootstrap) ==
    IF w.crashed THEN w
    ELSE IF channel \notin DOMAIN w.live THEN Throw(w, "fill")
    ELSE LET before == w.live[channel].data
             after == fill_push(before, bootstrap)
         IN Emit([w EXCEPT !.live[channel].ready = TRUE,
                           !.live[channel].data = after],
                 [tag |-> "filled", channel |-> channel, bootstrap |-> bootstrap,
                  before |-> before, after |-> after])

(* Client.read; c is the instance that emitted "pulled" *)
Client_read(w, c, channel, message) ==
    LET before == w.live[channel].data
        row_id == IF L_row_id \in DOMAIN message.data
                  THEN message.data[L_row_id] ELSE Undefined
        applied(after) ==
            Emit([w EXCEPT !.live[channel].data = after],
                 [tag |-> "applied", c |-> c, channel |-> channel,
                  action |-> message.action, row_id |-> row_id,
                  record |-> message.data, before |-> before, after |-> after,
                  built |-> channel \in w.conns[c].built,
                  bonded |-> channel \in w.conns[c].bonded])
    IN CASE message.action \in {"add", "modify"} ->
                applied(array_set(before, row_id, message.data))
         [] message.action = "del" -> applied(array_splice(before, row_id))
         [] message.action = "bootstrap_data" -> Client_shut(w)
         [] OTHER -> w

(* watchers.pulled with Client.done *)
watchers_pulled(w, c, channel, message) ==
    IF w.crashed THEN w
    ELSE IF channel \notin DOMAIN w.live THEN Throw(w, "Client.done")
    ELSE IF w.live[channel].ready THEN Client_read(w, c, channel, message)
    ELSE w

----------------------------------------------------------------------------
(* Connection: the handlers of inbound messages *)

(* The own properties of Connection.commands *)
Commands == {"join_channel", "login", "join", "left", "ident", "channel",
             "meteor_alive", "init", "clear", "bootstrap_data", "err", "default"}

(* on( "strap" ): rows is message.data.data.data, action the message's action *)
on_strap(w, c, channel, action, rows) ==
    LET w1 == channel_flow(w, c, channel)
        w2 == channel_lock(w1, c, channel)
        bootstrap == [i \in 1 .. Len(rows) |->
                         Connection_format(w2.conns[c].bond, action, rows[i], channel)]
        w3 == Emit([w2 EXCEPT !.conns[c].bonded = @ \cup {channel}],
                   [tag |-> "bonded", c |-> c, channel |-> channel,
                    cols |-> bond_of(w2.conns[c].bond, channel),
                    bootstrap |-> bootstrap])
    IN IF w2.crashed THEN w2 ELSE Client_fill(w3, channel, bootstrap)

no_calls_of(w, c, channel) ==
    /\ channel # NoChannel
    /\ channel \in DOMAIN w.conns[c].no_calls
    /\ w.conns[c].no_calls[channel]

(* on( "build" ) *)
on_build(w, c, channel, message) ==
    LET cols == Payload(message)
        w1 == [w EXCEPT !.conns[c].bond = Put(@, channel, cols),
                        !.conns[c].built = IF Len(cols) > 0 THEN @ \cup {channel} ELSE @]
    IN IF no_calls_of(w1, c, channel) THEN on_strap(w1, c, channel, "", <<>>) ELSE w1

(* on( "clear" ) *)
on_clear(w, c, channel) == [w EXCEPT !.conns[c].bond = Put(@, channel, <<>>)]

(* on( "login" ): the session id is saved, then "authed" and channel.join *)
on_login(w, c) ==
    channel_join([w EXCEPT !.conns[c].logins = @ + 1], c)

(* on( "command" ) and Connection.commands *)
on_command(w, c, channel, message) ==
    LET action == IF message.action # "" THEN message.action ELSE message.raw
        act == toLowerCase(IF channel = "meteor_alive" THEN channel ELSE action)
    IN CASE act = "join_channel" -> channel_lock(w, c, channel)
         [] act = "login" -> on_login(w, c)
         [] act \in {"join", "left", "ident", "channel"} -> w
         [] act = "meteor_alive" -> w
         [] act = "init" -> on_build(w, c, channel, message)
         [] act = "clear" -> on_clear(w, c, channel)
         [] act = "bootstrap_data" -> on_strap(w, c, channel, message.action, Payload(message))
         [] OTHER -> Emit(w, E("error", c, channel))

(* Connection.assemble *)
assemble_channel(messages) ==
    LET found == {i \in DOMAIN messages : channel_find(messages[i]) # NoChannel}
    IN IF found = {} THEN NoChannel
       ELSE channel_find(messages[CHOOSE i \in found : \A j \in found : i <= j])

Connection_assemble(w, c, messages) ==
    LET channel == assemble_channel(messages)
        has(action) == \E i \in DOMAIN messages : messages[i].action = action
    IN IF has("clear") /\ channel = NoChannel
       THEN Emit(w, E("error", c, channel))
       ELSE [w EXCEPT !.conns[c].no_calls =
                Put(@, channel, ~(has("init") /\ has("clear") /\ has("bootstrap_data")))]

(* Array.prototype.toString: the elements joined by commas *)
RECURSIVE array_toString(_)
array_toString(row) ==
    IF row = <<>> THEN <<>>
    ELSE IF Len(row) = 1 THEN row[1]
    ELSE row[1] \o <<",">> \o array_toString(Tail(row))

(* The values format reads from data.data of a message that went past the   *)
(* command dispatcher.  The rows of a bootstrap_data are arrays; format     *)
(* stores them as values and reads one of them only through parseInt, that  *)
(* is as its string.                                                        *)
format_values(message) ==
    IF message.action = "bootstrap_data"
    THEN [i \in DOMAIN message.rows |-> array_toString(message.rows[i])]
    ELSE Payload(message)

(* The callback of messages.forEach in on( "reading" ), for message i *)
reading_message(w, c, i, message) ==
    LET channel == channel_find(message)
        known == channel \in DOMAIN w.conns[c].data
        reserved == toLowerCase(message.raw) \in Commands
        routed(tag) == [tag |-> tag, c |-> c, i |-> i, channel |-> channel,
                        raw |-> message.raw, action |-> message.action,
                        reserved |-> reserved, no_calls |-> no_calls_of(w, c, channel),
                        done |-> known /\ w.conns[c].data[channel].done]
    IN IF channel = NoChannel \/ reserved
       THEN on_command(Emit(w, routed("command")), c, channel, message)
       ELSE IF ~known THEN Throw(w, "channel.done")
       ELSE IF ~w.conns[c].data[channel].done
       THEN on_command(Emit(w, routed("command")), c, channel, message)
       ELSE LET formatted == Connection_format(w.conns[c].bond, message.action,
                                               format_values(message), channel)
                delivery == [ok |-> formatted.ok, action |-> message.action,
                             cols |-> bond_of(w.conns[c].bond, channel),
                             ready |-> channel \in DOMAIN w.live /\ w.live[channel].ready]
            IN watchers_pulled(Emit(w, delivery @@ routed("pulled")),
                               c, channel, formatted)

RECURSIVE reading_each(_, _, _, _)
reading_each(w, c, messages, i) ==
    IF i > Len(messages) \/ w.crashed THEN w
    ELSE reading_each(reading_message(w, c, i, messages[i]), c, messages, i + 1)

(* on( "reading" ): the listener of the "reading" event, which carries the *)
(* messages of one batch                                                    *)
on_reading(w, c, messages) ==
    LET w1 == Emit(w, [tag |-> "reading", c |-> c, n |-> Len(messages)])
    IN reading_each(Connection_assemble(w1, c, messages), c, messages, 1)

(* socketEvents.open and on( "opening" ): ajax.open is called *)
socketEvents_open(w, c) ==
    [w EXCEPT !.conns[c].tunnel = "open", !.conns[c].opening = TRUE]

(* The callback of ajax.open: the auth message is sent *)
ajax_open_callback(w, c) ==
    Connection_send([w EXCEPT !.conns[c].opening = FALSE], c, "auth", "session")

(* on( "closing" ) *)
on_closing(w, c) ==
    [dump_each(w, c, SetsJoin \o SetsBoot) EXCEPT !.conns[c].shutting = TRUE]

----------------------------------------------------------------------------
(* The inbound messages and batches the server is taken to send. *)

None == <<>>
Login == Msg("LOGIN", NoChannel, NoChannel, "", None, None, None)
JoinAck(channel) == Msg("JOIN_CHANNEL", channel, NoChannel, "", None, None, None)
Plain(channel) == Msg("BROADCAST", channel, NoChannel, "", None, None, None)
LiveInit(name, cols) == Msg("BROADCAST", NoChannel, name, "init", cols, None, None)
LiveClear(name) == Msg("BROADCAST", NoChannel, name, "clear", None, None, None)
LiveBoot(name, rows) == Msg("BROADCAST", NoChannel, name, "bootstrap_data", None, rows, None)
LiveRow(name, action, row) == Msg("BROADCAST", NoChannel, name, action, None, None, row)

Cols == <<L_row_id, L_status>>
Row(row_id, status) == <<toString(row_id), status>>
Snapshot == <<Row(0, V_up)>>

(* A snapshot of n rows with row_id 0 .. n-1 *)
SnapshotOf(n) == [i \in 1 .. n |-> Row(i - 1, V_up)]

(* The incremental messages of a channel *)
RowMessages(name) ==
    {LiveRow(name, action, Row(r, status)) :
        action \in {"add", "modify", "del"}, r \in 0 .. MaxRows, status \in {V_up, V_dn}}

Messages ==
    {Login, Plain("presence"), Plain("zz"), Plain(NoChannel), LiveClear(NoChannel)}
    \cup {JoinAck(ch) : ch \in Range(SetsJoin) \cup Range(SetsBoot)}
    \cup UNION {{LiveInit(ch, Cols), LiveClear(ch), LiveBoot(ch, Snapshot)} :
                   ch \in Range(SetsBoot)}
    \cup {LiveRow("b1", "add", Row(1, V_up))}

Batches ==
    {<<m>> : m \in Messages}
    \cup {<<LiveInit("b1", Cols), LiveClear("b1"), LiveBoot("b1", Snapshot)>>,
          <<LiveClear("b1"), LiveInit("B1", Cols), LiveBoot("b1", Snapshot)>>,
          <<LiveInit("b1", Cols), LiveBoot("b1", Snapshot)>>}

----------------------------------------------------------------------------
(* The callbacks of the event loop. *)

(* The process before the consumer calls Client.open: Client.boot has run *)
Start == [conns |-> <<>>, live |-> EmptyMap, timers |-> {}, nextTimer |-> 1,
          crashed |-> FALSE, trace |-> <<>>, received |-> 0, fired |-> 0]

(* The variables hold the state w, with nothing observed yet *)
Install(w) ==
    /\ conns = w.conns
    /\ live = w.live
    /\ timers = w.timers
    /\ nextTimer = w.nextTimer
    /\ crashed = w.crashed
    /\ trace = <<>>
    /\ received = 0
    /\ fired = 0

Init == Install(Start)

(* An instance whose socket has closed receives no further message: its    *)
(* remaining callbacks (the ajax callbacks, its leaked timers) read poll and *)
(* the channel bindings only.  What no callback can read again is dropped.  *)
Collect(conn) ==
    IF conn.tunnel = "closed"
    THEN [conn EXCEPT !.bond = EmptyMap, !.no_calls = EmptyMap, !.logins = 0,
                      !.built = {}, !.bonded = {}]
    ELSE conn

(* The state a callback leaves, within the bounds of the model *)
Commit(w) ==
    /\ Len(w.conns) <= MaxConn
    /\ w.nextTimer <= MaxTimers + 1
    /\ \A c \in DOMAIN w.conns : w.conns[c].logins <= MaxLogins
    /\ conns' = [c \in DOMAIN w.conns |-> Collect(w.conns[c])]
    /\ live' = w.live
    /\ timers' = w.timers
    /\ nextTimer' = w.nextTimer
    /\ crashed' = w.crashed
    /\ trace' = w.trace
    /\ received' = w.received
    /\ fired' = w.fired

(* The consumer calls Client.open *)
ClientOpen ==
    /\ ~crashed
    /\ conns = <<>>
    /\ Commit(Client_open(World))

(* socketEvents.open and on( "opening" ): ajax.open is called *)
SocketOpen(c) ==
    /\ ~crashed
    /\ conns[c].tunnel = "connecting"
    /\ Commit(socketEvents_open(World, c))

(* The callback of ajax.open *)
AjaxOpened(c) ==
    /\ ~crashed
    /\ conns[c].opening
    /\ Commit(ajax_open_callback(World, c))

(* socketEvents.message: the server sends nothing before the auth message *)
SocketMessage(c, messages) ==
    /\ ~crashed
    /\ conns[c].tunnel = "open"
    /\ ~conns[c].opening
    /\ received < MaxBatches
    /\ Commit([on_reading(World, c, messages) EXCEPT !.received = @ + 1])

(* socketEvents.close: on( "closing" ) dumps the channels and calls ajax.shut *)
SocketClose(c) ==
    /\ ~crashed
    /\ conns[c].tunnel \in {"connecting", "open", "erred"}
    /\ Commit(on_closing([World EXCEPT !.conns[c].tunnel = "closed"], c))

(* The callback of ajax.shut: "closed" reaches watchers.closed, Client.shut *)
AjaxShut(c, loggedOut) ==
    /\ ~crashed
    /\ conns[c].shutting
    /\ LET w == [World EXCEPT !.conns[c].shutting = FALSE]
       IN Commit(IF loggedOut THEN Client_shut(Emit(w, E("closed", c, NoChannel))) ELSE w)

(* socketEvents.error: the socket reports an error; it delivers no further *)
(* message and its close event follows                                     *)
SocketError(c) ==
    /\ ~crashed
    /\ conns[c].tunnel \in {"connecting", "open"}
    /\ Commit(Emit([World EXCEPT !.conns[c].tunnel = "erred"],
                   TransportError(c, "socket")))

(* A heartbeat interval fires: channel.beat *)
TimerBeat(t) ==
    /\ ~crashed
    /\ t.kind = "beat"
    /\ fired < MaxFired
    /\ Commit(Connection_send([World EXCEPT !.fired = @ + 1], t.c, "beat", t.channel))

(* A health-check interval fires: channel.test *)
TimerTest(t) ==
    /\ ~crashed
    /\ t.kind = "test"
    /\ fired < MaxFired
    /\ Commit(Connection_send([World EXCEPT !.fired = @ + 1], t.c, "stat", t.channel))

(* The callbacks of the sockets, the ajax calls and the interval timers *)
Callbacks ==
    \/ \E c \in DOMAIN conns : SocketOpen(c)
    \/ \E c \in DOMAIN conns : AjaxOpened(c)
    \/ \E c \in DOMAIN conns, messages \in Batches : SocketMessage(c, messages)
    \/ \E c \in DOMAIN conns : SocketClose(c)
    \/ \E c \in DOMAIN conns, loggedOut \in BOOLEAN : AjaxShut(c, loggedOut)
    \/ \E c \in DOMAIN conns : SocketError(c)
    \/ \E t \in timers : TimerBeat(t)
    \/ \E t \in timers : TimerTest(t)

Next == ClientOpen \/ Callbacks

Spec == Init /\ [][Next]_vars

(* What the event loop guarantees: an ajax call that was made completes and *)
(* its callback runs (with either outcome); a socket that reported an error *)
(* is closed by the library and its close event is delivered.               *)
Fairness ==
    /\ WF_vars(\E c \in 1 .. MaxConn : c \in DOMAIN conns /\ AjaxOpened(c))
    /\ WF_vars(\E c \in 1 .. MaxConn, loggedOut \in BOOLEAN :
                  c \in DOMAIN conns /\ AjaxShut(c, loggedOut))
    /\ WF_vars(\E c \in 1 .. MaxConn :
                  c \in DOMAIN conns /\ conns[c].tunnel = "erred" /\ SocketClose(c))

SpecFair == Spec /\ Fairness

----------------------------------------------------------------------------
(* Later starts.  The first instance has opened, sent its auth message and  *)
(* handled the login: the process runs on from there.  For the cache of a   *)
(* ready channel the instance has also handled the join acknowledgement of  *)
(* b1 and a batch of clear, init and a snapshot of n rows; from there the    *)
(* server sends incremental messages for b1.                                *)

Opened(w) == ajax_open_callback(socketEvents_open(Client_open(w), Len(w.conns) + 1),
                                Len(w.conns) + 1)

Joined(w, c) == on_reading(w, c, <<Login>>)

Ready(n) ==
    on_reading(on_reading(Joined(Opened(Start), 1), 1, <<JoinAck("b1")>>), 1,
               <<LiveClear("b1"), LiveInit("b1", Cols), LiveBoot("b1", SnapshotOf(n))>>)

(* The process once the first instance has handled its login *)
InitJoined == Install(Joined(Opened(Start), 1))

SpecJoined == InitJoined /\ [][Callbacks]_vars

InitCache == \E n \in 0 .. MaxRows : Install(Ready(n))

NextCache == \E message \in RowMessages("b1") : SocketMessage(1, <<message>>)

SpecCache == InitCache /\ [][NextCache]_vars

----------------------------------------------------------------------------
(* Two live instances.  A second snapshot of b1 reached the ready first    *)
(* instance, so Client.read called Client.shut: the second instance exists  *)
(* and nothing closed the socket of the first, whose listeners stay bound.  *)
(* The second instance has opened and handled its login; the first has      *)
(* received clear, init and a snapshot of b2 since, and the second a batch  *)
(* of a presence broadcast and the init of b2.  From there the server sends *)
(* to both.                                                                 *)

Reopened == on_reading(Ready(1), 1, <<LiveBoot("b1", SnapshotOf(1))>>)

Stale ==
    on_reading(Joined(ajax_open_callback(socketEvents_open(Reopened, 2), 2), 2),
               1, <<LiveClear("b2"), LiveInit("b2", Cols), LiveBoot("b2", SnapshotOf(1))>>)

Overlapping == on_reading(Stale, 2, <<Plain("presence"), LiveInit("b2", Cols)>>)

OverlapBatches ==
    {<<JoinAck("b2")>>,
     <<JoinAck("b1")>>,
     <<LiveRow("b2", "add", Row(0, V_dn))>>,
     <<LiveRow("b1", "add", Row(1, V_dn))>>}

InitOverlap == Install(Overlapping)

NextOverlap ==
    \E c \in DOMAIN conns, messages \in OverlapBatches : SocketMessage(c, messages)

SpecOverlap == InitOverlap /\ [][NextOverlap]_vars

----------------------------------------------------------------------------
(* Connection.format on its own.  The first instance has handled its login  *)
(* and an init of b1 that carries a schema of one to MaxCols labels, among  *)
(* them the empty label; format is then applied once to a row of up to      *)
(* MaxCols + 1 values, so that a row can be longer than its schema.         *)

Labels == {L_a_id, L_b_id, L_status, L_row_id, L_id, <<>>}
Values == {<<"1">>, <<"2">>, V_up}

Schemas == UNION {[1 .. n -> Labels] : n \in 1 .. MaxCols}
RowValues == UNION {[1 .. n -> Values] : n \in 0 .. MaxCols + 1}

Built(cols) == on_reading(Joined(Opened(Start), 1), 1, <<LiveInit("b1", cols)>>)

InitFormat == \E cols \in Schemas : Install(Built(cols))

(* Connection.format( { data: { data: values, action: "add" } }, "b1" ) *)
FormatRow(values) ==
    /\ trace = <<>>
    /\ Commit(Emit(World, [tag |-> "formatted",
                           cols |-> bond_of(conns[1].bond, "b1"),
                           values |-> values,
                           record |-> Connection_format(conns[1].bond, "add",
                                                        values, "b1")]))

NextFormat == \E values \in RowValues : FormatRow(values)

SpecFormat == InitFormat /\ [][NextFormat]_vars

----------------------------------------------------------------------------
(* What the properties below read from a state. *)

(* The positions of the events of a kind in what the last callback did *)
Events(tag) == {k \in DOMAIN trace : trace[k].tag = tag}

(* An interval timer of instance c for the channel is active *)
HasTimer(c, channel, kind) ==
    \E t \in timers : t.c = c /\ t.channel = channel /\ t.kind = kind

(* The binding of the channel on instance c says done *)
IsDone(c, channel) ==
    channel \in DOMAIN conns[c].data /\ conns[c].data[channel].done

----------------------------------------------------------------------------
(* C1: on every connection instance, every channel of the join-and-        *)
(* bootstrap set has an active heartbeat timer and an active health-check   *)
(* timer if and only if its done flag is true.                              *)
C1_TimersIffDone ==
    \A c \in DOMAIN conns : \A n \in Range(SetsBoot) :
        n \in DOMAIN conns[c].data =>
            ((HasTimer(c, n, "beat") /\ HasTimer(c, n, "test")) <=> IsDone(c, n))

(* C2: an add, modify or del is applied to the cache of a channel only if, *)
(* earlier on the connection instance that delivered it, column names were  *)
(* stored for the channel (a non-empty list) and a bootstrap snapshot of the *)
(* channel was handed to the cache.                                         *)
C2_AppliedAfterSchemaAndSnapshot ==
    \A k \in Events("applied") :
        trace[k].action \in {"add", "modify", "del"} =>
            trace[k].built /\ trace[k].bonded

(* C3: a row processed for a channel without stored column names (absent   *)
(* or empty) formats to the not-formattable value and leaves the cache of   *)
(* the channel as it was: a not-formattable incremental delivery is applied  *)
(* to nothing, and a snapshot of not-formattable rows adds nothing to the   *)
(* collection.                                                              *)
C3_UnformattableLeavesCache ==
    /\ \A k \in Events("pulled") :
          /\ Len(trace[k].cols) = 0 => ~trace[k].ok
          /\ ~trace[k].ok =>
                (k = Len(trace) \/ trace[k + 1].tag \notin {"applied", "shut"})
    /\ \A k \in Events("bonded") : \A i \in DOMAIN trace[k].bootstrap :
          Len(trace[k].cols) = 0 => ~trace[k].bootstrap[i].ok
    /\ \A k \in Events("filled") :
          (\E i \in DOMAIN trace[k].bootstrap : ~trace[k].bootstrap[i].ok)
              => trace[k].after = trace[k].before

(* C4: a bootstrap_data delivered for a channel that is done on the        *)
(* connection and whose cache is ready makes the client construct and start *)
(* a new connection instance and reset the cache of every watched channel   *)
(* to data = [] and ready = false.                                          *)
C4_DuplicateBootstrapReconnects ==
    \A k \in Events("pulled") :
        (trace[k].action = "bootstrap_data" /\ trace[k].done /\ trace[k].ready) =>
            /\ \E j \in Events("shut") : j > k /\ trace[j].c < Len(conns)
            /\ conns[Len(conns)].tunnel = "connecting"
            /\ \A ch \in Range(SetsBoot) :
                  ch \in DOMAIN live /\ live[ch] = [data |-> <<>>, ready |-> FALSE]

(* C5: once the client has constructed a new connection instance in a      *)
(* reconnect, no heartbeat and no health-check timer of an earlier instance *)
(* is active, and no earlier instance sends a heartbeat or a health check.  *)
C5_NoTimerOfAnOldInstance ==
    /\ \A t \in timers : t.c = Len(conns)
    /\ \A k \in Events("send") :
          trace[k].format \in {"beat", "stat"} => trace[k].c = Len(conns)

(* The messages instance c sent in the last callback, in the order sent *)
IsSendOf(e, c) == e.tag = "send" /\ e.c = c
SendsOf(c) == SelectSeq(trace, LAMBDA e : IsSendOf(e, c))

(* C6: on every connection instance, the first one and every one made on   *)
(* a reconnection, the k-th message sent (of any kind) carries chl = k - 1: *)
(* the numbers start at 0 and go up by one per send, no repeat and no gap.  *)
C6_ChlCountsSends ==
    \A c \in DOMAIN conns :
        LET sends == SendsOf(c)
        IN \A k \in DOMAIN sends :
              sends[k].chl = (conns[c].nsent - Len(sends)) + (k - 1)

(* C6 happens: after the first instance sent four messages, the instance   *)
(* made on the reconnection sends its first message, with chl = 0.          *)
C6_Witness ==
    /\ Len(conns) = 2
    /\ conns[1].nsent >= 4
    /\ conns[2].nsent = 1
    /\ \E k \in Events("send") : trace[k].c = 2 /\ trace[k].chl = 0

(* C7: a callback in which an instance sent the join messages leaves done  *)
(* true for every channel of the join-only set, and no heartbeat or health- *)
(* check timer is ever started for a join-only channel.                     *)
C7_JoinOnlyDoneAtJoin ==
    /\ \A k \in Events("send") :
          trace[k].format = "join" =>
              \A n \in Range(SetsJoin) : IsDone(trace[k].c, n)
    /\ \A t \in timers : t.channel \notin Range(SetsJoin)

(* C8: every message of an inbound batch is routed: to the command         *)
(* dispatcher when its channel cannot be resolved, its raw label is a       *)
(* reserved command name or its channel is not done, and as a "pulled"      *)
(* delivery only when its channel is resolved and done and its raw label is *)
(* not reserved.                                                            *)
C8_Routing ==
    /\ \A k \in Events("pulled") :
          trace[k].channel # NoChannel /\ ~trace[k].reserved /\ trace[k].done
    /\ \A k \in Events("command") :
          trace[k].channel = NoChannel \/ trace[k].reserved \/ ~trace[k].done
    /\ \A k \in Events("throw") : trace[k].what # "channel.done"

(* C9: an incremental modify with row_id r applied to a collection of n    *)
(* records, 0 <= r < n, leaves the length at n, puts the new record at      *)
(* index r and leaves every other index as it was; the collection of the    *)
(* cache is the result.                                                     *)
C9_ModifyReplacesIndex ==
    \A k \in Events("applied") :
        LET e == trace[k]
            r == parseInt(e.row_id)
            n == Len(e.before)
        IN (e.action = "modify" /\ r # NaN /\ r < n) =>
              /\ Len(e.after) = n
              /\ e.after[r + 1] = e.record
              /\ \A j \in 1 .. n : j # r + 1 => e.after[j] = e.before[j]
              /\ live[e.channel].data = e.after

(* C9 happens: the first message after a bootstrap of three records with   *)
(* row_id 0, 1, 2 is a modify of row_id 1 that changes its status.          *)
C9_Witness ==
    /\ received = 1
    /\ \E k \in Events("applied") :
          /\ trace[k].action = "modify"
          /\ trace[k].row_id = <<"1">>
          /\ Len(trace[k].before) = 3
          /\ \A j \in 1 .. 3 : trace[k].before[j][L_row_id] = toString(j - 1)
          /\ trace[k].before[2][L_status] = V_up
          /\ live["b1"].data[2][L_status] = V_dn

(* C10: a del with row_id r applied to a collection of n records,          *)
(* 0 <= r < n, leaves n - 1 records: those before index r where they were    *)
(* and those after index r one position down; the collection of the cache   *)
(* is the result.                                                           *)
C10_DelShiftsDown ==
    \A k \in Events("applied") :
        LET e == trace[k]
            r == ToNumber(e.row_id)
            n == Len(e.before)
        IN (e.action = "del" /\ r # NaN /\ r < n) =>
              /\ Len(e.after) = n - 1
              /\ \A j \in 1 .. r : e.after[j] = e.before[j]
              /\ \A j \in r + 1 .. n - 1 : e.after[j] = e.before[j + 1]
              /\ live[e.channel].data = e.after

(* C10 happens: the first message after a bootstrap of two records is a    *)
(* del of row_id 0, and the cache holds the former index-1 record alone.    *)
C10_Witness ==
    /\ received = 1
    /\ \E k \in Events("applied") :
          /\ trace[k].action = "del"
          /\ trace[k].row_id = <<"0">>
          /\ Len(trace[k].before) = 2
          /\ trace[k].before[2][L_row_id] = <<"1">>
          /\ live["b1"].data = <<trace[k].before[2]>>

(* C11: for every non-empty schema and every row, format records each value *)
(* under its literal label in the flat data record (of positions that share *)
(* a label, the last one), puts a value whose label starts with a_ or b_    *)
(* into aleg or bleg of the call object under the label without that prefix *)
(* and every other value under its full label; a position with no label is  *)
(* recorded under FAILED.  For schema [a_id, b_id, status] and row          *)
(* [1, 2, up] the call object is {aleg: {id: 1}, bleg: {id: 2}, status: up}. *)
C11_FormatRecordsEveryValue ==
    \A k \in Events("formatted") :
        LET e == trace[k]
            r == e.record
            label(i) == IF i <= Len(e.cols) /\ e.cols[i] # <<>>
                        THEN e.cols[i] ELSE L_FAILED
            last(i) == \A j \in DOMAIN e.values : j > i => label(j) # label(i)
            prefix(i) == SubSeq(label(i), 1, 2)
            rest(i) == SubSeq(label(i), 3, Len(label(i)))
            has(f, key, value) == key \in DOMAIN f /\ f[key] = value
        IN /\ r.ok
           /\ \A i \in DOMAIN e.values :
                 last(i) =>
                    /\ has(r.data, label(i), e.values[i])
                    /\ prefix(i) = <<"a", "_">> => has(r.aleg, rest(i), e.values[i])
                    /\ prefix(i) = <<"b", "_">> => has(r.bleg, rest(i), e.values[i])
                    /\ prefix(i) \notin {<<"a", "_">>, <<"b", "_">>}
                          => has(r.call, label(i), e.values[i])
           /\ (e.cols = <<L_a_id, L_b_id, L_status>> /\ e.values = <<<<"1">>, <<"2">>, V_up>>)
                 => /\ r.aleg = (L_id :> <<"1">>)
                    /\ r.bleg = (L_id :> <<"2">>)
                    /\ r.call = (L_status :> V_up)

(* C12: the data of a formatted record carries a derived id exactly when     *)
(* row_id is one of the row's labelled fields, and then id is the decimal    *)
(* string of row_id + 1 (for a row_id that is a number); when the schema has *)
(* no row_id column no id is derived: data has an id only if the schema has  *)
(* an id column, and then it is that column's value.                         *)
C12_IdDerivedIffRowId ==
    \A k \in Events("formatted") :
        LET e == trace[k]
            data == e.record.data
            at(label) == {i \in DOMAIN e.values : i <= Len(e.cols) /\ e.cols[i] = label}
            value(label) == e.values[CHOOSE i \in at(label) : \A j \in at(label) : j <= i]
        IN IF at(L_row_id) # {}
           THEN ToNumber(value(L_row_id)) # NaN
                   => /\ L_id \in DOMAIN data
                      /\ data[L_id] = toString(ToNumber(value(L_row_id)) + 1)
           ELSE L_id \in DOMAIN data
                   => /\ at(L_id) # {}
                      /\ data[L_id] = value(L_id)

(* C13: after dump( channel ) of a channel the registry knows, neither the   *)
(* heartbeat timer nor the health-check timer created for that channel (the  *)
(* handles its binding held) is still active.                                *)
C13_DumpCancelsBothTimers ==
    \A k \in Events("dumped") :
        \A t \in timers : t.id \notin {trace[k].beat, trace[k].test}

(* C14: each channel of an instance has at most one active heartbeat timer   *)
(* and at most one active health-check timer.                                *)
C14_OneTimerOfAKind ==
    \A c \in DOMAIN conns, channel \in Range(SetsJoin \o SetsBoot), kind \in {"beat", "test"} :
        Cardinality({t \in timers : t.c = c /\ t.channel = channel /\ t.kind = kind}) <= 1

(* C15: for every channel of the join-and-bootstrap set done implies sent;   *)
(* lock on a bootstrap channel whose boot message has not been sent emits    *)
(* "booting" (the boot message is sent then), does not emit "loaded" (a      *)
(* later "loaded" of the channel belongs to a later message) and leaves done *)
(* false.                                                                    *)
C15_DoneImpliesSent ==
    /\ \A c \in DOMAIN conns, channel \in Range(SetsBoot) :
          IsDone(c, channel) => conns[c].data[channel].sent
    /\ \A k \in Events("booting") :
          LET c == trace[k].c
              channel == trace[k].channel
              loaded == {j \in Events("loaded") :
                            j > k /\ trace[j].c = c /\ trace[j].channel = channel}
          IN /\ k < Len(trace)
             /\ trace[k + 1].tag = "send"
             /\ trace[k + 1].format = "boot"
             /\ trace[k + 1].context = channel
             /\ \A j \in loaded : \E m \in Events("command") : k < m /\ m < j
             /\ loaded = {} => ~IsDone(c, channel) /\ conns[c].data[channel].sent

(* lock has run on b1 before its boot message was sent *)
C15_Witness ==
    \E k \in Events("booting") :
        /\ trace[k].channel = "b1"
        /\ ~IsDone(trace[k].c, "b1")
        /\ conns[trace[k].c].data["b1"].sent

(* C16: after every close of the socket of the current instance the client  *)
(* eventually constructs and starts a new instance and resets the cache of   *)
(* every watched channel to data = [] and ready = false, whatever the        *)
(* outcome of the logout call of the teardown.                               *)
C16_CloseLeadsToNewInstance ==
    \A c \in 1 .. MaxConn - 1 :
        (Len(conns) = c /\ conns[c].tunnel = "closed")
            ~> /\ Len(conns) = c + 1
               /\ conns[c + 1].tunnel = "connecting"
               /\ \A channel \in Range(SetsBoot) :
                     live[channel] = [data |-> <<>>, ready |-> FALSE]

(* C17: a transport error on the current instance (a failed send reported   *)
(* by the callback of send, or an error event of the socket) is emitted as   *)
(* "error" and is eventually followed by the construction of a new instance. *)
C17_TransportErrorLeadsToNewInstance ==
    \A c \in 1 .. MaxConn - 1 :
        (/\ Len(conns) = c
         /\ \E k \in Events("error") :
               trace[k].c = c /\ "transport" \in DOMAIN trace[k])
            ~> (Len(conns) > c)

(* C18: a channel of the join-and-bootstrap set is done only after, on the  *)
(* same instance, its join acknowledgement, its schema (init) and its        *)
(* snapshot (bootstrap_data, real or synthesised) were received; no other    *)
(* sequence of inbound messages makes it done.  Stated through what it       *)
(* requires of every state: a done channel has had its schema stored and its *)
(* snapshot handled by that instance.                                        *)
C18_DoneOnlyAfterSchemaAndSnapshot ==
    \A c \in DOMAIN conns, channel \in Range(SetsBoot) :
        IsDone(c, channel) =>
            /\ channel \in conns[c].built
            /\ channel \in conns[c].bonded

(* C19: between the creation of the state of a bootstrap channel and its    *)
(* next dump at most one boot message is sent for the channel, whatever      *)
(* inbound messages arrive and in whatever order; and one callback sends at  *)
(* most one boot message per channel.                                        *)
C19_OneBootPerBinding ==
    /\ \A c \in DOMAIN conns, channel \in Range(SetsBoot) :
          channel \in DOMAIN conns[c].data => conns[c].data[channel].boots <= 1
    /\ \A k, m \in Events("send") :
          (/\ trace[k].format = "boot" /\ trace[m].format = "boot"
           /\ trace[k].c = trace[m].c /\ trace[k].context = trace[m].context)
              => k = m

(* the boot message of b1 was sent and a later message reached lock again *)
C19_Witness ==
    /\ conns # <<>>
    /\ "b1" \in DOMAIN conns[1].data
    /\ conns[1].data["b1"].boots = 1
    /\ \E k \in Events("loaded") : trace[k].c = 1 /\ trace[k].channel = "b1"

(* C20: a boot message for a bootstrap channel is sent only as the reaction *)
(* to the join acknowledgement of that channel: the inbound message that was *)
(* routed last before the send is a JOIN_CHANNEL of the channel, never an    *)
(* init or a bootstrap_data.                                                 *)
C20_BootOnlyOnJoinAck ==
    \A k \in Events("send") :
        trace[k].format = "boot" =>
            \E m \in Events("command") :
                /\ m < k
                /\ \A j \in Events("command") \cup Events("pulled") : j < k => j <= m
                /\ trace[m].raw = "JOIN_CHANNEL"
                /\ trace[m].action = ""
                /\ trace[m].channel = trace[k].context

(* C21: handling a clear for a channel resets the channel's live collection *)
(* to empty and leaves the stored schema of the channel unchanged (for a     *)
(* batch that carries no init of the channel, which would store a new one).  *)
C21_ClearKeepsSchema ==
    [][\A k \in DOMAIN trace' :
          LET e == trace'[k]
          IN (/\ e.tag \in {"command", "pulled"}
              /\ e.action = "clear"
              /\ e.channel \in Range(SetsBoot)
              /\ e.c \in DOMAIN conns
              /\ ~\E j \in DOMAIN trace' :
                     /\ trace'[j].tag = "command"
                     /\ trace'[j].action = "init"
                     /\ trace'[j].channel = e.channel)
             => /\ bond_of(conns'[e.c].bond, e.channel) = bond_of(conns[e.c].bond, e.channel)
                /\ live'[e.channel].data = <<>>]_vars

(* C22: when an init is handled for a bootstrap channel that is flagged      *)
(* no_calls, the schema is stored and an empty bootstrap is emitted at once, *)
(* and the channel completes its lifecycle: before the next message of the   *)
(* batch is routed the channel is made done on the instance ("loaded") and   *)
(* its cache is made ready with an empty collection.                         *)
C22_InitWithoutCallsCompletes ==
    \A k \in Events("command") :
        LET e == trace[k]
            routed == {j \in Events("command") \cup Events("pulled") : j > k}
            mine(j) == /\ j > k
                       /\ \A r \in routed : j < r
                       /\ trace[j].channel = e.channel
        IN (e.action = "init" /\ e.channel \in Range(SetsBoot) /\ e.no_calls /\ ~crashed)
              => /\ \E j \in Events("bonded") :
                       mine(j) /\ trace[j].bootstrap = <<>> /\ trace[j].cols = Cols
                 /\ \E j \in Events("loaded") : mine(j) /\ trace[j].c = e.c
                 /\ \E j \in Events("filled") : mine(j) /\ trace[j].after = <<>>

(* C23: when a message of a batch raises a routing error or names a channel *)
(* that the registry does not hold, the batch goes on: every message of the  *)
(* batch is routed (to the command dispatcher or to the cache), in arrival   *)
(* order, and nothing is thrown.                                             *)
C23_BatchGoesOnAfterError ==
    \A k \in Events("reading") :
        LET routed == {j \in Events("command") \cup Events("pulled") : j > k}
        IN /\ Events("throw") = {}
           /\ \A i \in 1 .. trace[k].n :
                 \E j \in routed :
                    /\ trace[j].i = i
                    /\ \A h \in routed : trace[h].i < i => h < j

(* C24: after a bootstrap delivery (of rows that were formatted) the cache  *)
(* collection of the channel consists of exactly the records of that         *)
(* snapshot, in snapshot order: nothing the collection held before is left.  *)
C24_BootstrapReplacesCollection ==
    \A k \in Events("filled") :
        LET e == trace[k]
        IN (\A i \in DOMAIN e.bootstrap : e.bootstrap[i].ok)
              => e.after = [i \in DOMAIN e.bootstrap |-> e.bootstrap[i].data]

(* C25: after any sequence of add, modify and del on a ready channel every  *)
(* record of the collection sits at the position equal to its row_id, and an *)
(* add or modify that carries row_id r changes only a position that was      *)
(* empty or held the record whose own row_id is r.                           *)
C25_RecordsSitAtTheirRowId ==
    /\ \A i \in DOMAIN live["b1"].data :
          live["b1"].data[i] # Undefined
             => live["b1"].data[i][L_row_id] = toString(i - 1)
    /\ \A k \in Events("applied") :
          LET e == trace[k]
          IN e.action \in {"add", "modify"} =>
                \A i \in DOMAIN e.before :
                   (e.after[i] # e.before[i] /\ e.before[i] # Undefined)
                      => e.before[i][L_row_id] = e.row_id

(* C26: whenever the cache of a channel is ready the channel is done on an  *)
(* instance, and a bootstrap delivery ("bonded") marks the cache ready only  *)
(* when the lock of that delivery made the channel done ("loaded").          *)
C26_ReadyImpliesDone ==
    /\ \A channel \in DOMAIN live :
          live[channel].ready => \E c \in DOMAIN conns : IsDone(c, channel)
    /\ \A k \in Events("bonded") :
          \E j \in Events("loaded") :
             /\ j < k
             /\ trace[j].c = trace[k].c
             /\ trace[j].channel = trace[k].channel
             /\ \A r \in Events("command") \cup Events("pulled") : r < k => r < j

(* C27: every "pulled" delivery the client handles names a channel that has *)
(* a cache entry: the client never reads the ready flag of a channel for     *)
(* which wipe created no entry.                                              *)
C27_PulledHasCacheEntry ==
    /\ \A k \in Events("pulled") : trace[k].channel \in DOMAIN live
    /\ \A k \in Events("throw") : trace[k].what # "Client.done"

(* C28: when one batch carries an init and a bootstrap_data for a channel   *)
(* that is not done, no empty bootstrap is synthesised on the init, and the  *)
(* bootstrap_data is delivered as the bootstrap of the channel ("bonded"),   *)
(* not read as a duplicate that makes the client open a new instance.        *)
C28_NoSynthesisedAndRealBootstrap ==
    \A k \in Events("command"), b \in Events("command") \cup Events("pulled") :
        LET routed == Events("command") \cup Events("pulled")
            during(j, m) == m < j /\ \A r \in routed : r > m => j < r
        IN (/\ trace[k].action = "init"
            /\ trace[b].action = "bootstrap_data"
            /\ trace[k].channel \in Range(SetsBoot)
            /\ trace[b].channel = trace[k].channel
            /\ trace[b].c = trace[k].c
            /\ k < b)
           => /\ ~\E j \in Events("bonded") : during(j, k)
              /\ trace[b].tag = "command"
              /\ \E j \in Events("bonded") : during(j, b)
              /\ ~\E j \in Events("shut") : during(j, b)

====
